---- MODULE Spec2Model ----
(***************************************************************************)
(* A model of advanced-vector/vector.h: RawMemory<T>, the owner of a raw   *)
(* storage block, and Vector<T>, the owner of the lifetimes of the         *)
(* elements held in it.  Storage blocks live in an explicit heap, every    *)
(* slot of a block is either raw (Uninit) or holds a constructed T, and    *)
(* every constructor, assignment and allocation that may throw is a        *)
(* numbered fault point of the operation that performs it.                 *)
(***************************************************************************)
EXTENDS Integers, Sequences, FiniteSets, TLC

\* ------------------------------------------------------------------ bounds
MaxVal == 1        \* element values the driver passes in: 1..MaxVal
MaxCap == 4        \* largest capacity the driver lets a Vector reach
MaxBlocks == 3     \* storage blocks the allocator can hand out at one time
MaxFaults == 1     \* exceptions the driver lets one run throw
StackVal == 2      \* the same four bounds for the push/pop driver
StackCap == 4
StackBlocks == 3
StackFaults == 1
PairVal == 1       \* and for the driver of two Vectors
PairCap == 2
PairBlocks == 3
PairFaults == 1
ScriptPushes == 5  \* pushes of the scripted driver: the values 1..ScriptPushes
ScriptCap == 8     \* and its three other bounds
ScriptBlocks == 4
ScriptFaults == 0

\* ------------------------------------------------------------- cell values
Uninit == -2       \* a raw slot: no T lives there
Husk == -1         \* a T that has been moved from (valid, value unspecified)
DefaultValue == 0  \* T(), a value-initialised element
nullptr == 0
Names == {"a", "b"}

VARIABLES
    is_nothrow_move_constructible, \* std::is_nothrow_move_constructible_v<T>
    is_copy_constructible,         \* std::is_copy_constructible_v<T>
    vec,      \* the driver's two Vector<T> objects
    heap,     \* the storage blocks handed out by operator new
    limit,    \* the bounds of the running specification
    faults,   \* exceptions thrown so far
    last,     \* the last call: its target, its outcome, the objects it abandoned
    shadow    \* reference sequence kept beside vec["a"] by the push/pop driver

vars == <<is_nothrow_move_constructible, is_copy_constructible, vec, heap, limit, faults, last, shadow>>

Min(x, y) == IF x < y THEN x ELSE y
Max(x, y) == IF x > y THEN x ELSE y

\* ------------------------------------------------------------------- heap
FreeBlock == [allocated |-> FALSE, cells |-> <<>>]
Raw(n) == [i \in 0..(n - 1) |-> Uninit]
FreeIds(h) == {p \in DOMAIN h : p <= limit.blocks /\ ~h[p].allocated}

\* operator new fails when no block is left.
OutOfMemory(h, n) == n # 0 /\ FreeIds(h) = {}

\* RawMemory::Allocate: the pointer it returns (nullptr for n = 0).
Allocate(h, n) ==
    IF n # 0 THEN CHOOSE p \in FreeIds(h) : \A q \in FreeIds(h) : p <= q ELSE nullptr

\* RawMemory::Allocate: the heap after it.
AllocateHeap(h, n) ==
    IF n # 0 THEN [h EXCEPT ![Allocate(h, n)] = [allocated |-> TRUE, cells |-> Raw(n)]]
    ELSE h

\* RawMemory::Deallocate: operator delete (a no-op on nullptr).
Deallocate(h, buf) ==
    IF buf = nullptr THEN h ELSE [h EXCEPT ![buf] = FreeBlock]

\* Constructed objects held in block buf.
LiveIn(h, buf) ==
    IF buf = nullptr THEN 0
    ELSE Cardinality({i \in DOMAIN h[buf].cells : h[buf].cells[i] # Uninit})

\* ------------------------------------------------------------- RawMemory
RawMemoryDefault == [buffer_ |-> nullptr, capacity_ |-> 0]

RawMemoryCtor(h, capacity) == [buffer_ |-> Allocate(h, capacity), capacity_ |-> capacity]

\* RawMemory(RawMemory&&): this takes other's block, other is left empty.
RawMemoryMoveCtor(other) == [this |-> other, other |-> RawMemoryDefault]

\* RawMemory::operator=(RawMemory&&): same is (this == &rhs).  The block this
\* held before is overwritten, not deallocated.
RawMemoryMoveAssign(this, rhs, same) ==
    IF ~same THEN [this |-> [buffer_ |-> rhs.buffer_, capacity_ |-> rhs.capacity_],
                   rhs |-> RawMemoryDefault]
    ELSE [this |-> this, rhs |-> rhs]

RawMemorySwap(this, other) == [this |-> other, other |-> this]

\* ~RawMemory
RawMemoryDtor(h, this) == Deallocate(h, this.buffer_)

\* --------------------------------------------------- element-range helpers
\* placement new of one T holding x at slot i of block p
Construct(h, p, i, x) == [h EXCEPT ![p].cells[i] = x]

\* std::destroy_n(p + first, n)
destroy_n(h, p, first, n) ==
    IF n <= 0 \/ p = nullptr THEN h
    ELSE [h EXCEPT ![p].cells =
            [i \in DOMAIN @ |-> IF i >= first /\ i < first + n THEN Uninit ELSE @[i]]]

\* the raw slots among [first, first + n) of block p
RawSlots(h, p, first, n) ==
    IF p = nullptr THEN {}
    ELSE {i \in first..(first + n - 1) : i \in DOMAIN h[p].cells /\ h[p].cells[i] = Uninit}

\* The choice with the test for a throwing move constructor left out.
UseMoveAlways == TRUE

\* the if-constexpr choice made in every growth path
UseMove == is_nothrow_move_constructible \/ ~is_copy_constructible

\* a move constructor or move assignment may throw
MoveCanThrow == ~is_nothrow_move_constructible

\* std::uninitialized_move_n / std::uninitialized_copy_n of n elements from
\* slot from of block src to slot to of block dst.  k = 0: all n are built;
\* k in 1..n: building the k-th throws and the k-1 already built are destroyed
\* again (a moved-from source stays moved-from).
MoveOrCopyToMemory(h, src, from, n, dst, to, k) ==
    IF n = 0 THEN h
    ELSE IF k = 0 THEN
        LET built == [h EXCEPT ![dst].cells =
                        [i \in DOMAIN @ |-> IF i >= to /\ i < to + n
                                            THEN h[src].cells[from + (i - to)] ELSE @[i]]]
        IN IF UseMove
           THEN [built EXCEPT ![src].cells =
                    [i \in DOMAIN @ |-> IF i >= from /\ i < from + n THEN Husk ELSE @[i]]]
           ELSE built
    ELSE IF UseMove
         THEN [h EXCEPT ![src].cells =
                  [i \in DOMAIN @ |-> IF i >= from /\ i < from + k - 1 THEN Husk ELSE @[i]]]
         ELSE h

\* fault points of one transfer of n elements
TransferFaults(n) == IF MoveCanThrow THEN n ELSE 0

\* ---------------------------------------------------------------- results
\* What one call did: the Vector and heap it leaves, how it ended, where it
\* threw, what it returned, which slots of the Vector's own block it ran a
\* destructor on, how many constructed objects it abandoned in storage it
\* released, and whether it executed undefined behaviour.
Done(v, h, ret, destroyed) ==
    [v |-> v, heap |-> h, outcome |-> "ok", at |-> "none", ret |-> ret,
     destroyed |-> destroyed, leaked |-> 0, ub |-> FALSE]

Threw(v, h, at, leaked) ==
    [v |-> v, heap |-> h, outcome |-> "threw", at |-> at, ret |-> -1,
     destroyed |-> {}, leaked |-> leaked, ub |-> FALSE]

\* ----------------------------------------------------------------- Vector
NoVector == [life |-> "none", data_ |-> RawMemoryDefault, size_ |-> 0]

\* Vector() noexcept = default
VectorDefault == [life |-> "alive", data_ |-> RawMemoryDefault, size_ |-> 0]

Size(v) == v.size_
Capacity(v) == v.data_.capacity_

\* Reserve taking the new block without transferring the elements.
ReserveNoTransfer(h, v, new_capacity, f) ==
    IF new_capacity <= v.data_.capacity_ THEN Done(v, h, -1, {})
    ELSE IF f >= 1 \/ OutOfMemory(h, new_capacity) THEN Threw(v, h, "alloc", 0)
    ELSE LET new_data == RawMemoryCtor(h, new_capacity)
             h3 == destroy_n(AllocateHeap(h, new_capacity), v.data_.buffer_, 0, v.size_)
         IN Done([v EXCEPT !.data_ = new_data], h3, -1, 0..(v.size_ - 1))

\* Reserve installing the new block before the elements are in it: a transfer
\* that throws leaves the Vector on the new block, the elements built so far
\* destroyed again.
ReserveCommitFirst(h, v, new_capacity, f) ==
    IF new_capacity <= v.data_.capacity_ THEN Done(v, h, -1, {})
    ELSE IF f = 1 \/ OutOfMemory(h, new_capacity) THEN Threw(v, h, "alloc", 0)
    ELSE
        LET new_data == RawMemoryCtor(h, new_capacity)
            h1 == AllocateHeap(h, new_capacity)
            h2 == MoveOrCopyToMemory(h1, v.data_.buffer_, 0, v.size_, new_data.buffer_, 0,
                                     IF f = 0 THEN 0 ELSE f - 1)
        IN IF f > 1
           THEN Threw([v EXCEPT !.data_ = new_data], h2, "transfer", 0)
           ELSE
             LET h3 == destroy_n(h2, v.data_.buffer_, 0, v.size_)
                 mv == RawMemoryMoveAssign(v.data_, new_data, FALSE)
             IN Done([v EXCEPT !.data_ = mv.this], RawMemoryDtor(h3, mv.rhs), -1,
                     0..(v.size_ - 1))

\* Vector::Reserve.  Fault 1 is the allocation, fault 1 + k the transfer of the
\* k-th element.
ReserveFaults(v, new_capacity) ==
    IF new_capacity <= v.data_.capacity_ THEN 0 ELSE 1 + TransferFaults(v.size_)

Reserve(h, v, new_capacity, f) ==
    IF new_capacity <= v.data_.capacity_ THEN Done(v, h, -1, {})
    ELSE IF f = 1 \/ OutOfMemory(h, new_capacity) THEN Threw(v, h, "alloc", 0)
    ELSE
        LET new_data == RawMemoryCtor(h, new_capacity)
            h1 == AllocateHeap(h, new_capacity)
            h2 == MoveOrCopyToMemory(h1, v.data_.buffer_, 0, v.size_, new_data.buffer_, 0,
                                     IF f = 0 THEN 0 ELSE f - 1)
        IN IF f > 1
           THEN Threw(v, RawMemoryDtor(h2, new_data), "transfer", LiveIn(h2, new_data.buffer_))
           ELSE
             LET h3 == destroy_n(h2, v.data_.buffer_, 0, v.size_)
                 mv == RawMemoryMoveAssign(v.data_, new_data, FALSE)
             IN Done([v EXCEPT !.data_ = mv.this], RawMemoryDtor(h3, mv.rhs), -1,
                     0..(v.size_ - 1))

\* An argument of type const T& (or T&&) is either a value held outside the
\* Vector (a cell value, >= DefaultValue) or a reference to the Vector's own
\* element k, written as a number below every cell value.
ElementRef(k) == Uninit - 1 - k

\* What a constructor of T reads through the argument value when the heap is h.
Arg(h, v, value) ==
    IF value < Uninit THEN h[v.data_.buffer_].cells[Uninit - 1 - value] ELSE value

\* Growth by one slot instead of doubling.
GrowByOne(size) == size + 1

\* The capacity of the block a full Vector grows into:
\* RawMemory<T> new_data(size_ == 0 ? 1 : size_ * 2)
NewCapacity(size) == IF size = 0 THEN 1 ELSE size * 2

\* The new element of PushBack(T&&) is move-constructed, that of
\* PushBack(const T&) copy-constructed, that of Emplace*(args...) built by
\* whichever constructor the arguments select.
CtorCanThrow(by) == IF by = "move" THEN MoveCanThrow ELSE TRUE

CtorFaults(by) == IF CtorCanThrow(by) THEN 1 ELSE 0

\* Vector::PushBack (both overloads).  Growth: fault 1 is the allocation, the
\* next (if the constructor may throw) the new element, then the transfers.
\* No growth: fault 1 is the new element.
PushBackFaults(v, by) ==
    IF v.data_.capacity_ = v.size_
    THEN 1 + CtorFaults(by) + TransferFaults(v.size_)
    ELSE CtorFaults(by)

PushBack(h, v, value, by, f) ==
    IF v.data_.capacity_ = v.size_ THEN
        LET n == NewCapacity(v.size_)
            c == CtorFaults(by)
        IN IF f = 1 \/ OutOfMemory(h, n) THEN Threw(v, h, "alloc", 0)
           ELSE
             LET new_data == RawMemoryCtor(h, n)
                 h1 == AllocateHeap(h, n)
             IN IF c = 1 /\ f = 2 THEN Threw(v, RawMemoryDtor(h1, new_data), "construct", 0)
                ELSE
                  LET h2 == Construct(h1, new_data.buffer_, v.size_, Arg(h1, v, value))
                      h3 == MoveOrCopyToMemory(h2, v.data_.buffer_, 0, v.size_,
                                               new_data.buffer_, 0,
                                               IF f = 0 THEN 0 ELSE f - 1 - c)
                  IN IF f > 1 + c
                     THEN Threw(v, RawMemoryDtor(h3, new_data), "transfer",
                                LiveIn(h3, new_data.buffer_))
                     ELSE
                       LET h4 == destroy_n(h3, v.data_.buffer_, 0, v.size_)
                           mv == RawMemoryMoveAssign(v.data_, new_data, FALSE)
                       IN Done([v EXCEPT !.data_ = mv.this, !.size_ = @ + 1],
                               RawMemoryDtor(h4, mv.rhs), -1, 0..(v.size_ - 1))
    ELSE IF f = 1 THEN Threw(v, h, "construct", 0)
    ELSE Done([v EXCEPT !.size_ = @ + 1],
              Construct(h, v.data_.buffer_, v.size_, Arg(h, v, value)), -1, {})

\* PopBack without the test for an empty Vector.
PopBackUnchecked(h, v) ==
    Done([v EXCEPT !.size_ = @ - 1],
         destroy_n(h, v.data_.buffer_, v.size_ - 1, 1), -1, {v.size_ - 1})

\* Vector::PopBack
PopBack(h, v) ==
    IF v.size_ = 0 THEN Done(v, h, -1, {})
    ELSE Done([v EXCEPT !.size_ = @ - 1],
              destroy_n(h, v.data_.buffer_, v.size_ - 1, 1), -1, {v.size_ - 1})

\* Vector::EmplaceBack: as PushBack, the new element built from the arguments;
\* returns a reference to the new last element (its index here).
EmplaceBackFaults(v) ==
    IF v.data_.capacity_ = v.size_ THEN 2 + TransferFaults(v.size_) ELSE 1

EmplaceBack(h, v, value, f) ==
    IF v.data_.capacity_ = v.size_ THEN
        LET n == NewCapacity(v.size_)
        IN IF f = 1 \/ OutOfMemory(h, n) THEN Threw(v, h, "alloc", 0)
           ELSE
             LET new_data == RawMemoryCtor(h, n)
                 h1 == AllocateHeap(h, n)
             IN IF f = 2 THEN Threw(v, RawMemoryDtor(h1, new_data), "construct", 0)
                ELSE
                  LET h2 == Construct(h1, new_data.buffer_, v.size_, Arg(h1, v, value))
                      h3 == MoveOrCopyToMemory(h2, v.data_.buffer_, 0, v.size_,
                                               new_data.buffer_, 0,
                                               IF f = 0 THEN 0 ELSE f - 2)
                  IN IF f > 2
                     THEN Threw(v, RawMemoryDtor(h3, new_data), "transfer",
                                LiveIn(h3, new_data.buffer_))
                     ELSE
                       LET h4 == destroy_n(h3, v.data_.buffer_, 0, v.size_)
                           mv == RawMemoryMoveAssign(v.data_, new_data, FALSE)
                       IN Done([v EXCEPT !.data_ = mv.this, !.size_ = @ + 1],
                               RawMemoryDtor(h4, mv.rhs), v.size_, 0..(v.size_ - 1))
    ELSE IF f = 1 THEN Threw(v, h, "construct", 0)
    ELSE Done([v EXCEPT !.size_ = @ + 1],
              Construct(h, v.data_.buffer_, v.size_, Arg(h, v, value)), v.size_, {})

\* The growth branch transferring the existing elements first and building
\* the new element last.
GrowTransferFirst(h, v, index, value, c, f) ==
    LET n == NewCapacity(v.size_)
    IN IF f = 1 \/ OutOfMemory(h, n) THEN Threw(v, h, "alloc", 0)
       ELSE
         LET new_data == RawMemoryCtor(h, n)
             h1 == AllocateHeap(h, n)
             h2 == MoveOrCopyToMemory(h1, v.data_.buffer_, 0, index, new_data.buffer_, 0, 0)
             h3 == MoveOrCopyToMemory(h2, v.data_.buffer_, index, v.size_ - index,
                                      new_data.buffer_, index + 1, 0)
         IN IF f > 1 + c THEN Threw(v, RawMemoryDtor(h1, new_data), "transfer", 0)
            ELSE IF c = 1 /\ f = 2
            THEN Threw(v, RawMemoryDtor(h3, new_data), "construct",
                       LiveIn(h3, new_data.buffer_))
            ELSE
              LET h4 == Construct(h3, new_data.buffer_, index, Arg(h3, v, value))
                  h5 == destroy_n(h4, v.data_.buffer_, 0, v.size_)
                  mv == RawMemoryMoveAssign(v.data_, new_data, FALSE)
              IN Done([v EXCEPT !.data_ = mv.this, !.size_ = @ + 1],
                      RawMemoryDtor(h5, mv.rhs), index, 0..(v.size_ - 1))

\* The growth branch shared, line for line, by Emplace and both Insert
\* overloads: allocate, build the new element at index, transfer [0, index)
\* and then [index, size), destroy the old elements, take the new block.
\* c is 1 when the new element's constructor may throw.
GrowAndPlace(h, v, index, value, c, f) ==
    LET n == NewCapacity(v.size_)
        t1 == TransferFaults(index)
    IN IF f = 1 \/ OutOfMemory(h, n) THEN Threw(v, h, "alloc", 0)
       ELSE
         LET new_data == RawMemoryCtor(h, n)
             h1 == AllocateHeap(h, n)
         IN IF c = 1 /\ f = 2 THEN Threw(v, RawMemoryDtor(h1, new_data), "construct", 0)
            ELSE
              LET g == IF f = 0 THEN 0 ELSE f - 1 - c      \* fault among the transfers
                  h2 == Construct(h1, new_data.buffer_, index, Arg(h1, v, value))
                  h3 == MoveOrCopyToMemory(h2, v.data_.buffer_, 0, index,
                                           new_data.buffer_, 0,
                                           IF g >= 1 /\ g <= t1 THEN g ELSE 0)
              IN IF g >= 1 /\ g <= t1
                 THEN Threw(v, RawMemoryDtor(h3, new_data), "transfer",
                            LiveIn(h3, new_data.buffer_))
                 ELSE
                   LET h4 == MoveOrCopyToMemory(h3, v.data_.buffer_, index,
                                                v.size_ - index, new_data.buffer_,
                                                index + 1, IF g > t1 THEN g - t1 ELSE 0)
                   IN IF g > t1
                      THEN Threw(v, RawMemoryDtor(h4, new_data), "transfer",
                                 LiveIn(h4, new_data.buffer_))
                      ELSE
                        LET h5 == destroy_n(h4, v.data_.buffer_, 0, v.size_)
                            mv == RawMemoryMoveAssign(v.data_, new_data, FALSE)
                        IN Done([v EXCEPT !.data_ = mv.this, !.size_ = @ + 1],
                                RawMemoryDtor(h5, mv.rhs), index, 0..(v.size_ - 1))

GrowFaults(v, index, c) == 1 + c + TransferFaults(index) + TransferFaults(v.size_ - index)

\* The cells of a block of size live elements after the first s moves of
\* "move-construct slot size from slot size-1, then std::move_backward":
\* slots (size-s, size] hold their left neighbour's value, slot size-s is moved-from.
ShiftRight(cells, size, s) ==
    [i \in DOMAIN cells |->
        IF i > size - s /\ i <= size THEN cells[i - 1]
        ELSE IF i = size - s THEN Husk
        ELSE cells[i]]

\* The no-growth branch shared by Emplace (pos # cend()) and Insert, for
\* 0 <= index < size: new_item is built (fault 1 if c = 1), the last element is
\* move-constructed into slot size, [index, size-1) is moved one slot right,
\* new_item is move-assigned into slot index.
ShiftAndPlace(h, v, index, value, c, f) ==
    LET buf == v.data_.buffer_
        cells == h[buf].cells
        m == v.size_ - index                   \* moves before the final assignment
        g == IF f = 0 THEN 0 ELSE f - c        \* fault among the moves
        new_item == Arg(h, v, value)           \* T new_item(value), before any move
    IN IF c = 1 /\ f = 1 THEN Threw(v, h, "construct", 0)
       ELSE IF g = 0 THEN
            Done([v EXCEPT !.size_ = @ + 1],
                 [h EXCEPT ![buf].cells =
                      [ShiftRight(cells, v.size_, m) EXCEPT ![index] = new_item]],
                 index, {})
       ELSE IF g = 1 THEN Threw(v, h, "move", 0)
       ELSE Threw(v, [h EXCEPT ![buf].cells = ShiftRight(cells, v.size_, g - 1)], "move", 0)

ShiftFaults(v, index, c) == c + (IF MoveCanThrow THEN v.size_ - index + 1 ELSE 0)

\* Emplace without its case for pos == cend(): the end position goes through
\* the element shift, as it does in Insert.
EmplaceNoEndCase(h, v, index, value, f) ==
    IF v.data_.capacity_ = v.size_ THEN GrowAndPlace(h, v, index, value, 1, f)
    ELSE IF index = v.size_ THEN
        IF f = 1 THEN Threw(v, h, "construct", 0)
        ELSE LET buf == v.data_.buffer_
                 moved == IF v.size_ = 0 THEN h[buf].cells
                          ELSE [h[buf].cells EXCEPT ![v.size_ - 1] = Husk]
             IN [Done([v EXCEPT !.size_ = @ + 1],
                      [h EXCEPT ![buf].cells = [moved EXCEPT ![index] = Arg(h, v, value)]], index, {})
                 EXCEPT !.ub = TRUE]
    ELSE ShiftAndPlace(h, v, index, value, 1, f)

\* Vector::Emplace(pos, args...), pos = begin() + index.
EmplaceFaults(v, index) ==
    IF v.data_.capacity_ = v.size_ THEN GrowFaults(v, index, 1)
    ELSE IF index = v.size_ THEN 1
    ELSE ShiftFaults(v, index, 1)

Emplace(h, v, index, value, f) ==
    IF v.data_.capacity_ = v.size_ THEN GrowAndPlace(h, v, index, value, 1, f)
    ELSE IF index = v.size_ THEN
        IF f = 1 THEN Threw(v, h, "construct", 0)
        ELSE Done([v EXCEPT !.size_ = @ + 1],
                  Construct(h, v.data_.buffer_, v.size_, Arg(h, v, value)), index, {})
    ELSE ShiftAndPlace(h, v, index, value, 1, f)

\* Vector::Insert(pos, const T&) and Insert(pos, T&&).  The no-growth branch
\* has no case for pos == cend(): it reads data_[size_ - 1] and calls
\* std::move_backward(begin() + index, end() - 1, end()) whatever index is.
\* With size_ = 0 the read is out of bounds, with index = size_ the range
\* handed to move_backward has first > last: both are undefined behaviour;
\* when the program goes on, the last element has been moved from and
\* new_item assigned to slot size_.
InsertFaults(v, index, by) ==
    IF v.data_.capacity_ = v.size_ THEN GrowFaults(v, index, CtorFaults(by))
    ELSE IF index = v.size_ THEN CtorFaults(by)
    ELSE ShiftFaults(v, index, CtorFaults(by))

Insert(h, v, index, value, by, f) ==
    IF v.data_.capacity_ = v.size_ THEN GrowAndPlace(h, v, index, value, CtorFaults(by), f)
    ELSE IF index = v.size_ THEN
        IF f = 1 THEN Threw(v, h, "construct", 0)
        ELSE LET buf == v.data_.buffer_
                 moved == IF v.size_ = 0 THEN h[buf].cells
                          ELSE [h[buf].cells EXCEPT ![v.size_ - 1] = Husk]
             IN [Done([v EXCEPT !.size_ = @ + 1],
                      [h EXCEPT ![buf].cells = [moved EXCEPT ![index] = Arg(h, v, value)]], index, {})
                 EXCEPT !.ub = TRUE]
    ELSE ShiftAndPlace(h, v, index, value, CtorFaults(by), f)

\* Erase closing the gap from the wrong end: PopBack only.
EraseLast(h, v, index, f) == [PopBack(h, v) EXCEPT !.ret = index]

\* The cells after the first s move-assignments of std::move(begin()+index+1,
\* end(), begin()+index): slots [index, index+s) hold their right neighbour's
\* value, slot index+s is moved-from.
ShiftLeft(cells, index, s) ==
    IF s = 0 THEN cells
    ELSE [i \in DOMAIN cells |->
            IF i >= index /\ i < index + s THEN cells[i + 1]
            ELSE IF i = index + s THEN Husk
            ELSE cells[i]]

\* Vector::Erase(pos), pos = begin() + index, index < size.
EraseFaults(v, index) == IF MoveCanThrow THEN v.size_ - 1 - index ELSE 0

Erase(h, v, index, f) ==
    LET buf == v.data_.buffer_
        m == v.size_ - 1 - index
    IN IF f >= 1
       THEN Threw(v, [h EXCEPT ![buf].cells = ShiftLeft(@, index, f - 1)], "move", 0)
       ELSE LET r == PopBack([h EXCEPT ![buf].cells = ShiftLeft(@, index, m)], v)
            IN [r EXCEPT !.ret = index]

\* Value-construction that starts at slot 0 whatever first is.
value_construct_from_begin(h, p, first, n) ==
    IF n <= 0 THEN h
    ELSE [h EXCEPT ![p].cells =
            [i \in DOMAIN @ |-> IF i < n THEN DefaultValue ELSE @[i]]]

\* std::uninitialized_value_construct_n(p + first, n)
uninitialized_value_construct_n(h, p, first, n) ==
    IF n <= 0 THEN h
    ELSE [h EXCEPT ![p].cells =
            [i \in DOMAIN @ |-> IF i >= first /\ i < first + n THEN DefaultValue ELSE @[i]]]

\* Vector::Resize.  The faults of Reserve come first, then one per
\* value-constructed element (the elements already built are destroyed again).
ResizeFaults(v, new_size) ==
    IF new_size < v.size_ THEN 0
    ELSE IF new_size < v.data_.capacity_ THEN new_size - v.size_
    ELSE ReserveFaults(v, new_size) + (new_size - v.size_)

Resize(h, v, new_size, f) ==
    IF new_size < v.size_ THEN
        Done([v EXCEPT !.size_ = new_size],
             destroy_n(h, v.data_.buffer_, new_size, v.size_ - new_size), -1,
             new_size..(v.size_ - 1))
    ELSE IF new_size < v.data_.capacity_ THEN
        IF f >= 1 THEN Threw(v, h, "value_construct", 0)
        ELSE Done([v EXCEPT !.size_ = new_size],
                  uninitialized_value_construct_n(h, v.data_.buffer_, v.size_,
                                                  new_size - v.size_), -1, {})
    ELSE
        LET rf == ReserveFaults(v, new_size)
            r == Reserve(h, v, new_size, IF f <= rf THEN f ELSE 0)
        IN IF r.outcome # "ok" THEN r
           ELSE IF f > rf THEN Threw(r.v, r.heap, "value_construct", 0)
           ELSE Done([r.v EXCEPT !.size_ = new_size],
                     uninitialized_value_construct_n(r.heap, r.v.data_.buffer_, v.size_,
                                                     new_size - v.size_), -1, r.destroyed)

\* explicit Vector(size): fault 1 is the allocation, then one per element.
\* A constructor that throws leaves no object; its data_ member is destroyed.
VectorSizedFaults(size) == IF size = 0 THEN 0 ELSE 1 + size

VectorSized(h, size, f) ==
    IF size # 0 /\ (f = 1 \/ OutOfMemory(h, size)) THEN Threw(NoVector, h, "alloc", 0)
    ELSE IF f > 1 THEN Threw(NoVector, h, "value_construct", 0)
    ELSE LET data_ == RawMemoryCtor(h, size)
         IN Done([life |-> "alive", data_ |-> data_, size_ |-> size],
                 uninitialized_value_construct_n(AllocateHeap(h, size), data_.buffer_, 0, size),
                 -1, {})

\* ~Vector: destroy the live elements, then ~RawMemory.
VectorDtor(h, v) ==
    Done([NoVector EXCEPT !.life = "dead"],
         RawMemoryDtor(destroy_n(h, v.data_.buffer_, 0, v.size_), v.data_), -1,
         0..(v.size_ - 1))

\* std::uninitialized_copy_n of n elements from slot from of block src to slot
\* to of block dst.  k = 0: all n are built; k in 1..n: the k-th copy throws
\* and the k-1 built are destroyed again.
uninitialized_copy_n(h, src, from, n, dst, to, k) ==
    IF n <= 0 \/ k # 0 THEN h
    ELSE [h EXCEPT ![dst].cells =
            [i \in DOMAIN @ |-> IF i >= to /\ i < to + n
                                THEN h[src].cells[from + (i - to)] ELSE @[i]]]

\* std::copy_n: copy-assignment of n elements from slot 0 of block src onto
\* slot 0 of block dst.  k in 1..n: the k-th assignment throws, the k-1 done stay.
copy_n(h, src, n, dst, k) ==
    LET done == IF k = 0 THEN n ELSE k - 1
    IN IF done <= 0 THEN h
       ELSE [h EXCEPT ![dst].cells =
               [i \in DOMAIN @ |-> IF i < done THEN h[src].cells[i] ELSE @[i]]]

\* A copy constructor that copies the members: both Vectors hold one block.
VectorCopyShallow(h, other, f) ==
    Done([life |-> "alive", data_ |-> other.data_, size_ |-> other.size_], h, -1, {})

\* Vector(const Vector& other): fault 1 is the allocation, fault 1 + k the k-th copy.
VectorCopyFaults(other) == IF other.size_ = 0 THEN 0 ELSE 1 + other.size_

VectorCopy(h, other, f) ==
    IF f = 1 \/ OutOfMemory(h, other.size_) THEN Threw(NoVector, h, "alloc", 0)
    ELSE IF f > 1 THEN Threw(NoVector, h, "copy", 0)
    ELSE LET data_ == RawMemoryCtor(h, other.size_)
         IN Done([life |-> "alive", data_ |-> data_, size_ |-> other.size_],
                 uninitialized_copy_n(AllocateHeap(h, other.size_), other.data_.buffer_, 0,
                                      other.size_, data_.buffer_, 0, 0),
                 -1, {})

\* Vector(Vector&& other) noexcept: the new Vector and what is left of other.
VectorMove(other) ==
    LET mv == RawMemoryMoveCtor(other.data_)
    IN [v |-> [life |-> "alive", data_ |-> mv.this, size_ |-> other.size_],
        rhs |-> [other EXCEPT !.data_ = mv.other, !.size_ = 0]]

\* Swap exchanging the storage and forgetting size_.
SwapDataOnly(this, other) ==
    LET sw == RawMemorySwap(this.data_, other.data_)
    IN [v |-> [this EXCEPT !.data_ = sw.this], rhs |-> [other EXCEPT !.data_ = sw.other]]

\* Vector::Swap
Swap(this, other) ==
    LET sw == RawMemorySwap(this.data_, other.data_)
    IN [v |-> [this EXCEPT !.data_ = sw.this, !.size_ = other.size_],
        rhs |-> [other EXCEPT !.data_ = sw.other, !.size_ = this.size_]]

\* Vector::operator=(Vector&&) noexcept; same is (this == &rhs).
MoveAssign(this, rhs, same) ==
    IF ~same THEN Swap(this, rhs) ELSE [v |-> this, rhs |-> rhs]

\* Copy assignment that always builds the copy in new storage and takes it,
\* with no test for this == &rhs and no reuse of the storage it has.
CopyAssignAlwaysFresh(h, this, rhs, same, f) ==
    IF f = 1 \/ OutOfMemory(h, rhs.size_) THEN Threw(this, h, "alloc", 0)
    ELSE IF f > 1 THEN Threw(this, h, "copy", 0)
    ELSE
      LET new_data == RawMemoryCtor(h, rhs.size_)
          h1 == uninitialized_copy_n(AllocateHeap(h, rhs.size_), rhs.data_.buffer_, 0,
                                     rhs.size_, new_data.buffer_, 0, 0)
          h2 == destroy_n(h1, this.data_.buffer_, 0, this.size_)
          mv == RawMemoryMoveAssign(this.data_, new_data, FALSE)
      IN Done([this EXCEPT !.data_ = mv.this, !.size_ = rhs.size_],
              RawMemoryDtor(h2, mv.rhs), -1, 0..(this.size_ - 1))

\* Vector::operator=(const Vector&); same is (this == &rhs).  With new storage:
\* fault 1 is the allocation, fault 1 + k the k-th copy.  In place: fault k is
\* the k-th copy-assignment of the common prefix, the later faults the copies
\* of the suffix.  When rhs is shorter, the destroyed range runs to Capacity().
CopyAssignFaults(this, rhs, same) ==
    IF same THEN 0
    ELSE IF rhs.size_ > this.data_.capacity_ THEN 1 + rhs.size_
    ELSE Min(this.size_, rhs.size_) + Max(0, rhs.size_ - this.size_)

CopyAssign(h, this, rhs, same, f) ==
    IF same THEN Done(this, h, -1, {})
    ELSE IF rhs.size_ > this.data_.capacity_ THEN
        IF f = 1 \/ OutOfMemory(h, rhs.size_) THEN Threw(this, h, "alloc", 0)
        ELSE IF f > 1 THEN Threw(this, h, "copy", 0)
        ELSE
          LET new_data == RawMemoryCtor(h, rhs.size_)
              h1 == uninitialized_copy_n(AllocateHeap(h, rhs.size_), rhs.data_.buffer_, 0,
                                         rhs.size_, new_data.buffer_, 0, 0)
              h2 == destroy_n(h1, this.data_.buffer_, 0, this.size_)
              mv == RawMemoryMoveAssign(this.data_, new_data, FALSE)
          IN Done([this EXCEPT !.data_ = mv.this, !.size_ = rhs.size_],
                  RawMemoryDtor(h2, mv.rhs), -1, 0..(this.size_ - 1))
    ELSE
        LET buf == this.data_.buffer_
            m == Min(this.size_, rhs.size_)
            h1 == copy_n(h, rhs.data_.buffer_, m, buf, IF f <= m THEN f ELSE 0)
        IN IF f >= 1 /\ f <= m THEN Threw(this, h1, "copy_assign", 0)
           ELSE IF rhs.size_ < this.size_ THEN
                [Done([this EXCEPT !.size_ = rhs.size_],
                      destroy_n(h1, buf, rhs.size_, this.data_.capacity_ - rhs.size_), -1,
                      rhs.size_..(this.data_.capacity_ - 1))
                 EXCEPT !.ub = RawSlots(h1, buf, rhs.size_,
                                        this.data_.capacity_ - rhs.size_) # {}]
           ELSE IF rhs.size_ > this.size_ THEN
                IF f > m THEN Threw(this, h1, "copy", 0)
                ELSE Done([this EXCEPT !.size_ = rhs.size_],
                          uninitialized_copy_n(h1, rhs.data_.buffer_, this.size_,
                                               rhs.size_ - this.size_, buf, this.size_, 0),
                          -1, {})
           ELSE Done([this EXCEPT !.size_ = rhs.size_], h1, -1, {})

\* ------------------------------------------------------------- the driver
NoCall == [op |-> "none", tgt |-> "a", outcome |-> "ok", at |-> "none", leaked |-> 0]

Running == last.outcome # "aborted"
Alive(x) == vec[x].life = "alive"

\* A call that would double the capacity past the bound is not made.
MayGrow(x) ==
    vec[x].size_ < vec[x].data_.capacity_ \/ Max(1, 2 * vec[x].size_) <= limit.cap

\* The call op on vec[x] ended as r says; a call that executed undefined
\* behaviour either went on as r says or aborted the program.
Commit(op, x, r) ==
    /\ vec' = [vec EXCEPT ![x] = r.v]
    /\ heap' = r.heap
    /\ \E o \in (IF r.ub THEN {r.outcome, "aborted"} ELSE {r.outcome}) :
         last' = [op |-> op, tgt |-> x, outcome |-> o, at |-> r.at, leaked |-> r.leaked]
    /\ faults' = IF r.outcome = "threw" THEN Min(limit.faults, faults + 1) ELSE faults
    /\ UNCHANGED <<is_nothrow_move_constructible, is_copy_constructible, limit>>

DefaultConstructCall(x) ==
    /\ Running /\ vec[x].life = "none"
    /\ Commit("Vector", x, Done(VectorDefault, heap, -1, {}))

SizedConstructCall(x, n, f) ==
    /\ Running /\ vec[x].life = "none"
    /\ Commit("Vector(n)", x, VectorSized(heap, n, f))

DestroyCall(x) ==
    /\ Running /\ Alive(x)
    /\ Commit("~Vector", x, VectorDtor(heap, vec[x]))

ReserveCall(x, n, f) ==
    /\ Running /\ Alive(x)
    /\ Commit("Reserve", x, Reserve(heap, vec[x], n, f))

ResizeCall(x, n, f) ==
    /\ Running /\ Alive(x)
    /\ Commit("Resize", x, Resize(heap, vec[x], n, f))

PushBackCall(x, value, by, f) ==
    /\ Running /\ Alive(x) /\ MayGrow(x)
    /\ by = "copy" => is_copy_constructible
    /\ Commit("PushBack", x, PushBack(heap, vec[x], value, by, f))

EmplaceBackCall(x, value, f) ==
    /\ Running /\ Alive(x) /\ MayGrow(x)
    /\ Commit("EmplaceBack", x, EmplaceBack(heap, vec[x], value, f))

PopBackCall(x) ==
    /\ Running /\ Alive(x)
    /\ Commit("PopBack", x, PopBack(heap, vec[x]))

EmplaceCall(x, index, value, f) ==
    /\ Running /\ Alive(x) /\ MayGrow(x)
    /\ Commit("Emplace", x, Emplace(heap, vec[x], index, value, f))

InsertCall(x, index, value, by, f) ==
    /\ Running /\ Alive(x) /\ MayGrow(x)
    /\ by = "copy" => is_copy_constructible
    /\ Commit("Insert", x, Insert(heap, vec[x], index, value, by, f))

EraseCall(x, index, f) ==
    /\ Running /\ Alive(x)
    /\ Commit("Erase", x, Erase(heap, vec[x], index, f))

\* A RawMemory (the one vec[x] owns) move-assigned to itself.
RawMoveAssignCall(x) ==
    /\ Running /\ Alive(x)
    /\ Commit("RawMemory::operator=(RawMemory&&)", x,
              Done([vec[x] EXCEPT !.data_ =
                        RawMemoryMoveAssign(vec[x].data_, vec[x].data_, TRUE).this],
                   heap, -1, {}))

\* A call that changes (or may change) two Vectors: vec[x] and vec[y].
Commit2(op, x, y, r) ==
    /\ vec' = [vec EXCEPT ![y] = r.rhs, ![x] = r.v]
    /\ heap' = heap
    /\ last' = [op |-> op, tgt |-> x, outcome |-> "ok", at |-> "none", leaked |-> 0]
    /\ UNCHANGED <<is_nothrow_move_constructible, is_copy_constructible, limit, faults>>

CopyConstructCall(x, y, f) ==
    /\ Running /\ vec[x].life = "none" /\ Alive(y) /\ is_copy_constructible
    /\ Commit("Vector(const Vector&)", x, VectorCopy(heap, vec[y], f))

MoveConstructCall(x, y) ==
    /\ Running /\ vec[x].life = "none" /\ Alive(y)
    /\ Commit2("Vector(Vector&&)", x, y, VectorMove(vec[y]))

CopyAssignCall(x, y, f) ==
    /\ Running /\ Alive(x) /\ Alive(y) /\ is_copy_constructible
    /\ Commit("operator=(const Vector&)", x, CopyAssign(heap, vec[x], vec[y], x = y, f))

MoveAssignCall(x, y) ==
    /\ Running /\ Alive(x) /\ Alive(y)
    /\ Commit2("operator=(Vector&&)", x, y, MoveAssign(vec[x], vec[y], x = y))

SwapCall(x, y) ==
    /\ Running /\ Alive(x) /\ Alive(y)
    /\ Commit2("Swap", x, y, Swap(vec[x], vec[y]))

\* The arguments the driver draws; it injects a fault only while the run's
\* budget of exceptions lasts.
Values == 1..limit.vals
Caps == 0..limit.cap
Faults(n) == 0..(IF faults < limit.faults THEN n ELSE 0)
Bys == {"copy", "move"}
Positions(x) == 0..vec[x].size_          \* [begin(), end()]
Elements(x) == 0..(vec[x].size_ - 1)     \* [begin(), end())

DoDefaultConstruct(x) ==
    /\ UNCHANGED shadow
    /\ DefaultConstructCall(x)
DoSizedConstruct(x) ==
    /\ UNCHANGED shadow
    /\ \E n \in Caps : \E f \in Faults(VectorSizedFaults(n)) : SizedConstructCall(x, n, f)
DoDestroy(x) ==
    /\ UNCHANGED shadow
    /\ DestroyCall(x)
DoReserve(x) ==
    /\ UNCHANGED shadow
    /\ \E n \in Caps : \E f \in Faults(ReserveFaults(vec[x], n)) : ReserveCall(x, n, f)
DoResize(x) ==
    /\ UNCHANGED shadow
    /\ \E n \in Caps : \E f \in Faults(ResizeFaults(vec[x], n)) : ResizeCall(x, n, f)
DoPushBack(x) ==
    /\ UNCHANGED shadow
    /\ \E value \in Values : \E by \in Bys : \E f \in Faults(PushBackFaults(vec[x], by)) :
         PushBackCall(x, value, by, f)
DoEmplaceBack(x) ==
    /\ UNCHANGED shadow
    /\ \E value \in Values : \E f \in Faults(EmplaceBackFaults(vec[x])) : EmplaceBackCall(x, value, f)
DoPopBack(x) ==
    /\ UNCHANGED shadow
    /\ PopBackCall(x)
DoEmplace(x) ==
    /\ UNCHANGED shadow
    /\ \E index \in Positions(x) : \E value \in Values :
         \E f \in Faults(EmplaceFaults(vec[x], index)) : EmplaceCall(x, index, value, f)
DoInsert(x) ==
    /\ UNCHANGED shadow
    /\ \E index \in Positions(x) : \E value \in Values : \E by \in Bys :
         \E f \in Faults(InsertFaults(vec[x], index, by)) : InsertCall(x, index, value, by, f)
DoErase(x) ==
    /\ UNCHANGED shadow
    /\ \E index \in Elements(x) : \E f \in Faults(EraseFaults(vec[x], index)) : EraseCall(x, index, f)

DoRawMoveAssign(x) ==
    /\ UNCHANGED shadow
    /\ RawMoveAssignCall(x)

\* PushBack(const T&), Insert(pos, const T&) and Emplace(pos, const T&) handed
\* a reference to an element of the Vector itself.
DoPushBackOwn(x) ==
    /\ UNCHANGED shadow
    /\ \E k \in Elements(x) : \E f \in Faults(PushBackFaults(vec[x], "copy")) :
         PushBackCall(x, ElementRef(k), "copy", f)
DoInsertOwn(x) ==
    /\ UNCHANGED shadow
    /\ \E index \in Positions(x) : \E k \in Elements(x) :
         \E f \in Faults(InsertFaults(vec[x], index, "copy")) :
            InsertCall(x, index, ElementRef(k), "copy", f)
DoEmplaceOwn(x) ==
    /\ UNCHANGED shadow
    /\ \E index \in Positions(x) : \E k \in Elements(x) :
         \E f \in Faults(EmplaceFaults(vec[x], index)) :
            EmplaceCall(x, index, ElementRef(k), f)

DoCopyConstruct(x) ==
    /\ UNCHANGED shadow
    /\ \E y \in Names \ {x} : \E f \in Faults(VectorCopyFaults(vec[y])) :
         CopyConstructCall(x, y, f)
DoMoveConstruct(x) ==
    /\ UNCHANGED shadow
    /\ \E y \in Names \ {x} : MoveConstructCall(x, y)
DoCopyAssign(x) ==
    /\ UNCHANGED shadow
    /\ \E y \in Names : \E f \in Faults(CopyAssignFaults(vec[x], vec[y], x = y)) :
         CopyAssignCall(x, y, f)
DoMoveAssign(x) ==
    /\ UNCHANGED shadow
    /\ \E y \in Names : MoveAssignCall(x, y)
DoSwap(x) ==
    /\ UNCHANGED shadow
    /\ \E y \in Names \ {x} : SwapCall(x, y)

\* The reference of the push/pop driver: a sequence appended to by every push
\* that returns and shortened by every pop of a non-empty sequence.
StackPush ==
    \E value \in Values : \E by \in Bys : \E f \in Faults(PushBackFaults(vec["a"], by)) :
        /\ PushBackCall("a", value, by, f)
        /\ shadow' = IF last'.outcome = "ok" THEN Append(shadow, value) ELSE shadow
StackPop ==
    /\ PopBackCall("a")
    /\ shadow' = IF shadow = <<>> THEN shadow ELSE SubSeq(shadow, 1, Len(shadow) - 1)

\* The scripted driver: one Vector is constructed empty, the values 1, 2, ...
\* are appended to it (by either PushBack overload or by EmplaceBack), then 99
\* is inserted somewhere (by Insert or Emplace), then an element is erased,
\* then the Vector is resized, any number of times.  No fault is injected.
Appends == {"Vector", "PushBack", "EmplaceBack"}
ScriptPush ==
    /\ UNCHANGED shadow
    /\ last.op \in Appends /\ last.outcome = "ok" /\ Alive("a")
    /\ Size(vec["a"]) < limit.vals
    /\ \/ \E by \in Bys : PushBackCall("a", Size(vec["a"]) + 1, by, 0)
       \/ EmplaceBackCall("a", Size(vec["a"]) + 1, 0)
ScriptInsert ==
    /\ UNCHANGED shadow
    /\ last.op \in Appends /\ last.outcome = "ok" /\ Alive("a")
    /\ \E index \in Positions("a") :
         \/ \E by \in Bys : InsertCall("a", index, 99, by, 0)
         \/ EmplaceCall("a", index, 99, 0)
ScriptErase ==
    /\ UNCHANGED shadow
    /\ last.op \in {"Insert", "Emplace"} /\ last.outcome = "ok"
    /\ \E index \in Elements("a") : EraseCall("a", index, 0)
ScriptResize ==
    /\ UNCHANGED shadow
    /\ last.op \in {"Erase", "Resize"} /\ last.outcome = "ok"
    /\ \E n \in Caps : ResizeCall("a", n, 0)

\* The element types: <<nothrow move-constructible, copy-constructible>>.
Kinds == {<<TRUE, TRUE>>, <<FALSE, TRUE>>, <<FALSE, FALSE>>, <<TRUE, FALSE>>}
Copyable == {k \in Kinds : k[2]}

InitWith(kinds, vals, cap, blocks, nfaults) ==
    /\ \E k \in kinds : /\ is_nothrow_move_constructible = k[1]
                        /\ is_copy_constructible = k[2]
    /\ vec = [x \in Names |-> NoVector]
    /\ limit = [vals |-> vals, cap |-> cap, blocks |-> blocks, faults |-> nfaults]
    /\ faults = 0
    /\ heap = [p \in 1..blocks |-> FreeBlock]
    /\ last = NoCall
    /\ shadow = <<>>

\* ------------------------------------------------------------ observation
\* The elements a caller reads through operator[]: slots [0, size_).
Elems(h, v) == [i \in 1..v.size_ |-> h[v.data_.buffer_].cells[i - 1]]
ElemsOf(x) == Elems(heap, vec[x])

\* Size(), Capacity() and the element values.
Observable(x) ==
    [size |-> Size(vec[x]), capacity |-> Capacity(vec[x]), elems |-> ElemsOf(x)]

\* The same three of a Vector v in a heap h.
Observe(h, v) == [size |-> Size(v), capacity |-> Capacity(v), elems |-> Elems(h, v)]

\* The slots of vec[x]'s block (none when it has no block).
CellsOf(x) == IF vec[x].data_.buffer_ = nullptr THEN <<>> ELSE heap[vec[x].data_.buffer_].cells

\* Reference sequences.
InsertAt(s, index, value) ==
    SubSeq(s, 1, index) \o <<value>> \o SubSeq(s, index + 1, Len(s))
RemoveAt(s, index) == SubSeq(s, 1, index) \o SubSeq(s, index + 2, Len(s))
Defaults(n) == [i \in 1..n |-> DefaultValue]

\* ----------------------------------------------------------------- claims
\* C1: after any sequence of PushBack and PopBack calls on an empty Vector
\* (calls that returned: no exception so far), Size() is the number of pushes
\* minus the pops of a non-empty Vector, and the elements are the surviving
\* pushed values in push order.
C1_PushPopIsStack ==
    (Alive("a") /\ faults = 0) => /\ Size(vec["a"]) = Len(shadow)
                                 /\ ElemsOf("a") = shadow

\* Three pushes (the third one doubling the capacity to 4), then a pop.
C1_Witness ==
    /\ last.op = "PopBack" /\ shadow = <<2, 1>> /\ faults = 0
    /\ Capacity(vec["a"]) = 4 /\ ElemsOf("a") = shadow

\* C2 (as claimed): Insert(pos, v), at every pos in [begin, end] and with or
\* without growth, returns pos, leaves v at pos, the former [0, pos) in place
\* and the former [pos, size) at [pos+1, size+1), and adds 1 to the size.
C2_InsertEverywhere ==
    [][\A x \in Names : \A index \in Positions(x) : \A value \in Values : \A by \in Bys :
          (last'.op = "Insert" /\ InsertCall(x, index, value, by, 0))
          => /\ last'.outcome = "ok"
             /\ Insert(heap, vec[x], index, value, by, 0).ret = index
             /\ Size(vec[x])' = Size(vec[x]) + 1
             /\ ElemsOf(x)' = InsertAt(ElemsOf(x), index, value)]_vars

\* C3: Erase(pos) with 0 <= pos < size returns pos, takes 1 from the size,
\* keeps the capacity and the former [0, pos), and moves the former
\* [pos+1, size) to [pos, size-1) in order.
C3_Erase ==
    [][\A x \in Names : \A index \in Elements(x) :
          (last'.op = "Erase" /\ last'.outcome = "ok" /\ EraseCall(x, index, 0))
          => /\ Erase(heap, vec[x], index, 0).ret = index
             /\ (index = Size(vec[x]) - 1 => index = Size(vec[x])')
             /\ Size(vec[x])' = Size(vec[x]) - 1
             /\ Capacity(vec[x])' = Capacity(vec[x])
             /\ ElemsOf(x)' = RemoveAt(ElemsOf(x), index)]_vars

\* An Erase that left two elements of different values behind, in a block
\* with room for four.
C3_Witness ==
    /\ last.op = "Erase" /\ last.outcome = "ok"
    /\ Size(vec["a"]) = 2 /\ Capacity(vec["a"]) = 4
    /\ ElemsOf("a") = <<1, 0>>

\* C4: Reserve(n) with n <= Capacity() changes nothing; with n > Capacity()
\* it leaves Capacity() = n, Size() and every element as they were.
C4_Reserve ==
    [][\A x \in Names : \A n \in Caps :
          (last'.op = "Reserve" /\ last'.outcome = "ok" /\ ReserveCall(x, n, 0))
          => IF n <= Capacity(vec[x])
             THEN vec'[x] = vec[x] /\ CellsOf(x)' = CellsOf(x)
             ELSE /\ Capacity(vec[x])' = n
                  /\ Size(vec[x])' = Size(vec[x])
                  /\ ElemsOf(x)' = ElemsOf(x)]_vars

\* A Reserve that left two elements in a block of three slots.
C4_Witness ==
    /\ last.op = "Reserve" /\ last.outcome = "ok"
    /\ Capacity(vec["a"]) = 3 /\ ElemsOf("a") = <<0, 1>>

\* C10: Resize(n) leaves Size() = n.  n below the size: [n, size) are
\* destroyed, [0, n) and the capacity stay.  n above the size: [0, size) stay,
\* [size, n) are default-valued, the capacity is max(capacity, n).
C10_Resize ==
    [][\A x \in Names : \A n \in Caps :
          (last'.op = "Resize" /\ last'.outcome = "ok" /\ ResizeCall(x, n, 0))
          => /\ Size(vec[x])' = n
             /\ n < Size(vec[x]) =>
                  /\ ElemsOf(x)' = SubSeq(ElemsOf(x), 1, n)
                  /\ Capacity(vec[x])' = Capacity(vec[x])
                  /\ vec'[x].data_.buffer_ = vec[x].data_.buffer_
                  /\ \A i \in n..(Size(vec[x]) - 1) : CellsOf(x)'[i] = Uninit
                  /\ Resize(heap, vec[x], n, 0).destroyed = n..(Size(vec[x]) - 1)
             /\ n > Size(vec[x]) =>
                  /\ ElemsOf(x)' = ElemsOf(x) \o Defaults(n - Size(vec[x]))
                  /\ Capacity(vec[x])' = Max(Capacity(vec[x]), n)]_vars

\* A Resize that grew a Vector past its capacity, behind a non-default element.
C10_Witness ==
    /\ last.op = "Resize" /\ last.outcome = "ok"
    /\ Capacity(vec["a"]) = 3 /\ ElemsOf("a") = <<1, 0, 0>>


\* The calls whose growth path transfers the existing elements.
GrowthOps == {"Reserve", "PushBack", "EmplaceBack", "Insert", "Emplace"}

\* C5: for a copyable T whose move constructor may throw, a growth path
\* (Reserve past the capacity; PushBack, EmplaceBack, Insert or Emplace with
\* size = capacity) that throws, at the allocation, at the new element or at
\* the copy of the k-th existing element, leaves the size, the capacity, the
\* block and every element value as they were: nothing was moved from.
C5_GrowthByCopyIsStrong ==
    [][\A x \in Names :
          (/\ last'.tgt = x /\ last'.outcome = "threw" /\ last'.op \in GrowthOps
           /\ is_copy_constructible /\ ~is_nothrow_move_constructible
           /\ last'.op # "Reserve" => Capacity(vec[x]) = Size(vec[x]))
          => /\ vec'[x] = vec[x]
             /\ Observable(x)' = Observable(x)
             /\ CellsOf(x)' = CellsOf(x)]_vars

\* An Insert into a full Vector of two elements whose transfer threw.
C5_Witness ==
    /\ last.op = "Insert" /\ last.outcome = "threw" /\ last.at = "transfer"
    /\ is_copy_constructible /\ ~is_nothrow_move_constructible
    /\ Size(vec["a"]) = 2 /\ Capacity(vec["a"]) = 2 /\ ElemsOf("a") = <<1, 0>>

C7_SourceLeftEmpty ==
    [][\A x \in Names : \A y \in Names \ {x} :
          /\ (last'.op = "Vector(Vector&&)" /\ last'.tgt = x /\ MoveConstructCall(x, y))
             => /\ ElemsOf(x)' = ElemsOf(y)
                /\ Size(vec[y])' = 0
          /\ (last'.op = "operator=(Vector&&)" /\ last'.tgt = x /\ MoveAssignCall(x, y))
             => /\ ElemsOf(x)' = ElemsOf(y)
                /\ Size(vec[y])' = 0]_vars

\* C7 (amended): move construction gives the new Vector the source's size,
\* capacity and values and leaves the source with size 0 and capacity 0; move
\* assignment into another Vector exchanges the two: the destination has the
\* source's size, capacity and values, the source has the destination's former
\* ones (size 0 exactly when the destination was empty).
C7_MoveExchanges ==
    [][\A x \in Names : \A y \in Names \ {x} :
          /\ (last'.op = "Vector(Vector&&)" /\ last'.tgt = x /\ MoveConstructCall(x, y))
             => /\ Observable(x)' = Observable(y)
                /\ Size(vec[y])' = 0 /\ Capacity(vec[y])' = 0
          /\ (last'.op = "operator=(Vector&&)" /\ last'.tgt = x /\ MoveAssignCall(x, y))
             => /\ Observable(x)' = Observable(y)
                /\ Observable(y)' = Observable(x)]_vars

\* A move assignment between two non-empty Vectors of different sizes.
C7_Witness ==
    /\ last.op = "operator=(Vector&&)" /\ last.tgt = "a"
    /\ ElemsOf("a") = <<1, 0>> /\ ElemsOf("b") = <<0>>

\* The calls that act on two Vectors at once.
TwoVectorOps == {"Vector(Vector&&)", "operator=(Vector&&)", "Swap"}

\* C8: the copy constructor gives the new Vector the source's size and values
\* in a block of its own and leaves the source alone; no two Vectors ever
\* hold the same block, and a call on one Vector (any but a move from or a
\* swap with the other) leaves the other's size, capacity, block and slots as
\* they were.
C8_CopyIsIndependent ==
    [][/\ \A x \in Names : \A y \in Names \ {x} :
            /\ (/\ last'.op = "Vector(const Vector&)" /\ last'.tgt = x
                /\ last'.outcome = "ok" /\ CopyConstructCall(x, y, 0))
               => /\ Size(vec[x])' = Size(vec[y])
                  /\ ElemsOf(x)' = ElemsOf(y)
            /\ (last'.tgt = x /\ last'.op \notin TwoVectorOps)
               => /\ vec'[y] = vec[y]
                  /\ CellsOf(y)' = CellsOf(y)
            /\ (Alive(x)' /\ Alive(y)' /\ vec'[x].data_.buffer_ # nullptr)
               => vec'[x].data_.buffer_ # vec'[y].data_.buffer_]_vars

\* A copy of a Vector of two different elements, just made.
C8_Witness ==
    /\ last.op = "Vector(const Vector&)" /\ last.outcome = "ok" /\ last.tgt = "b"
    /\ ElemsOf("a") = <<1, 0>> /\ ElemsOf("b") = <<1, 0>>
    /\ vec["a"].data_.buffer_ # vec["b"].data_.buffer_

\* C9 (as claimed): a = b with b.size <= a.capacity completes in a's storage:
\* a has b's size and values and its old capacity and block, b is unchanged,
\* and the slots destroyed are a's former [b.size, a.size) when b is shorter,
\* none otherwise.
C9_CopyAssignInPlace ==
    [][\A x \in Names : \A y \in Names \ {x} :
          (/\ last'.op = "operator=(const Vector&)" /\ last'.tgt = x
           /\ Size(vec[y]) <= Capacity(vec[x]) /\ CopyAssignCall(x, y, 0))
          => /\ last'.outcome = "ok"
             /\ Size(vec[x])' = Size(vec[y])
             /\ ElemsOf(x)' = ElemsOf(y)
             /\ vec'[x].data_ = vec[x].data_
             /\ vec'[y] = vec[y] /\ CellsOf(y)' = CellsOf(y)
             /\ CopyAssign(heap, vec[x], vec[y], FALSE, 0).destroyed =
                  (IF Size(vec[y]) < Size(vec[x])
                   THEN Size(vec[y])..(Size(vec[x]) - 1) ELSE {})]_vars


\* The calls that add one element.
AddOps == {"PushBack", "EmplaceBack", "Insert", "Emplace"}

\* C11: PushBack, EmplaceBack, Insert and Emplace that return leave the
\* capacity max(1, 2 x capacity) when size = capacity before the call and as
\* it was otherwise.  Appending 1..5 to an empty Vector walks the capacity
\* through 0, 1, 2, 4, 4, 8; from <<1,2,3,4,5>>, Insert(2, 99) gives
\* <<1,2,99,3,4,5>>, then Erase(0) <<2,99,3,4,5>>, then Resize(2) <<2,99>>, then
\* Resize(4) <<2,99,0,0>>.
C11_GrowthAndScript ==
    [][/\ (last'.op \in AddOps /\ last'.outcome = "ok")
          => Capacity(vec["a"])' = (IF Size(vec["a"]) = Capacity(vec["a"])
                                    THEN Max(1, 2 * Capacity(vec["a"]))
                                    ELSE Capacity(vec["a"]))
       /\ (last'.op \in Appends /\ last'.outcome = "ok" /\ Size(vec["a"])' <= 5)
          => /\ Capacity(vec["a"])' = <<0, 1, 2, 4, 4, 8>>[Size(vec["a"])' + 1]
             /\ ElemsOf("a")' = [i \in 1..Size(vec["a"])' |-> i]
       /\ \A by \in Bys :
            (/\ ElemsOf("a") = <<1, 2, 3, 4, 5>> /\ last'.op = "Insert"
             /\ InsertCall("a", 2, 99, by, 0))
            => ElemsOf("a")' = <<1, 2, 99, 3, 4, 5>>
       /\ (/\ ElemsOf("a") = <<1, 2, 99, 3, 4, 5>> /\ last'.op = "Erase"
           /\ EraseCall("a", 0, 0))
          => ElemsOf("a")' = <<2, 99, 3, 4, 5>>
       /\ (/\ ElemsOf("a") = <<2, 99, 3, 4, 5>> /\ last'.op = "Resize"
           /\ ResizeCall("a", 2, 0))
          => ElemsOf("a")' = <<2, 99>>
       /\ (/\ ElemsOf("a") = <<2, 99>> /\ last.op = "Resize" /\ last'.op = "Resize"
           /\ last'.outcome = "ok" /\ ResizeCall("a", 4, 0))
          => ElemsOf("a")' = <<2, 99, 0, 0>>]_vars

\* The end of the script: five appends, Insert(2, 99), Erase(0), Resize(2),
\* Resize(4), in the block of eight slots the fifth append allocated.
C11_Witness ==
    /\ last.op = "Resize" /\ last.outcome = "ok"
    /\ ElemsOf("a") = <<2, 99, 0, 0>> /\ Capacity(vec["a"]) = 8

\* C12: Emplace(pos, x) that returns, at every pos in [begin, end] and with or
\* without spare capacity, returns pos, leaves x at pos, the former [0, pos)
\* in place and the former [pos, size) at [pos+1, size+1); at pos = end it
\* leaves the size, capacity and values that EmplaceBack(x) and PushBack(x)
\* (either overload) leave from the same state.
C12_Emplace ==
    [][\A x \in Names : \A index \in Positions(x) : \A value \in Values :
          (last'.op = "Emplace" /\ last'.outcome = "ok" /\ EmplaceCall(x, index, value, 0))
          => /\ Emplace(heap, vec[x], index, value, 0).ret = index
             /\ Size(vec[x])' = Size(vec[x]) + 1
             /\ ElemsOf(x)' = InsertAt(ElemsOf(x), index, value)
             /\ index = Size(vec[x]) =>
                  LET eb == EmplaceBack(heap, vec[x], value, 0)
                  IN /\ eb.outcome = "ok"
                     /\ Observe(eb.heap, eb.v) = Observable(x)'
                     /\ \A by \in Bys :
                          (by = "copy" => is_copy_constructible) =>
                             LET pb == PushBack(heap, vec[x], value, by, 0)
                             IN /\ pb.outcome = "ok"
                                /\ Observe(pb.heap, pb.v) = Observable(x)']_vars

\* An Emplace at the end of a Vector with spare capacity.
C12_Witness ==
    /\ last.op = "Emplace" /\ last.outcome = "ok"
    /\ Capacity(vec["a"]) = 4 /\ ElemsOf("a") = <<0, 1>>

\* C13: a.Swap(b) cannot fail and gives a the block, capacity, size and
\* elements b had and b those a had, leaving every slot of every block as it
\* was (nothing allocated, constructed, copied, moved or destroyed); a second
\* Swap gives both Vectors back what they had.
C13_Swap ==
    [][\A x \in Names : \A y \in Names \ {x} :
          (last'.op = "Swap" /\ last'.tgt = x /\ SwapCall(x, y))
          => /\ last'.outcome = "ok"
             /\ vec'[x] = vec[y] /\ vec'[y] = vec[x]
             /\ Observable(x)' = Observable(y) /\ Observable(y)' = Observable(x)
             /\ heap' = heap
             /\ LET once == Swap(vec[x], vec[y])
                    twice == Swap(once.v, once.rhs)
                IN twice.v = vec[x] /\ twice.rhs = vec[y]]_vars

\* A Swap of two non-empty Vectors of different sizes and capacities.
C13_Witness ==
    /\ last.op = "Swap" /\ last.tgt = "a"
    /\ ElemsOf("a") = <<0, 1>> /\ ElemsOf("b") = <<1>> /\ Capacity(vec["b"]) = 1

\* C14: a Vector copy-assigned or move-assigned to itself, and a RawMemory
\* move-assigned to itself, is left as it was: the call returns, block,
\* capacity and size are the same and no slot of any block has changed
\* (nothing constructed, destroyed or moved from).
C14_SelfAssignment ==
    [][\A x \in Names :
          /\ (last'.op = "operator=(const Vector&)" /\ CopyAssignCall(x, x, 0))
             => (last'.outcome = "ok" /\ vec' = vec /\ heap' = heap)
          /\ (last'.op = "operator=(Vector&&)" /\ MoveAssignCall(x, x))
             => (last'.outcome = "ok" /\ vec' = vec /\ heap' = heap)
          /\ (last'.op = "RawMemory::operator=(RawMemory&&)" /\ RawMoveAssignCall(x))
             => (last'.outcome = "ok" /\ vec' = vec /\ heap' = heap)]_vars

\* A Vector of two elements and a spare slot, just copy-assigned to itself.
C14_Witness ==
    /\ last.op = "operator=(const Vector&)" /\ last.outcome = "ok"
    /\ ElemsOf("a") = <<0, 1>> /\ Capacity(vec["a"]) = 3

\* 0 <= size <= capacity, the slots holding an object are exactly [0, size),
\* and the Vector has a block exactly when its capacity is not 0.
WellFormed(x) ==
    /\ 0 <= Size(vec[x]) /\ Size(vec[x]) <= Capacity(vec[x])
    /\ (vec[x].data_.buffer_ # nullptr) <=> (Capacity(vec[x]) > 0)
    /\ DOMAIN CellsOf(x) = 0..(Capacity(vec[x]) - 1)
    /\ \A i \in DOMAIN CellsOf(x) : (CellsOf(x)[i] # Uninit) <=> (i < Size(vec[x]))

\* C15 (as claimed): after every call that returned, whatever calls came
\* before it, every Vector has 0 <= size <= capacity, objects in exactly the
\* slots [0, size), raw slots in [size, capacity), and a block iff capacity > 0.
C15_Invariants ==
    last.outcome = "ok" => \A x \in Names : Alive(x) => WellFormed(x)

\* C16 (as claimed): for a copyable T whose move constructor may throw, a
\* growth path (Reserve, PushBack, EmplaceBack, Insert, Emplace) whose copy of
\* an existing element throws has destroyed every object it had built in the
\* new block, the new element included, when it releases the block: no
\* object is abandoned.
C16_TransferCleansUp ==
    (/\ last.outcome = "threw" /\ last.at = "transfer" /\ last.op \in GrowthOps
     /\ is_copy_constructible /\ ~is_nothrow_move_constructible)
    => last.leaked = 0

\* C17: in the growth path of PushBack, EmplaceBack, Insert and Emplace the
\* new element is built in the new block before any existing element is
\* touched: when its constructor throws, the Vector (size, capacity, block)
\* and every slot of every block are as before the call (no element moved
\* from, the new block released) and no object is abandoned.
C17_NewElementFirst ==
    [][\A x \in Names :
          (/\ last'.tgt = x /\ last'.op \in AddOps /\ Capacity(vec[x]) = Size(vec[x])
           /\ last'.outcome = "threw" /\ last'.at = "construct")
          => /\ vec' = vec /\ heap' = heap
             /\ Observable(x)' = Observable(x)
             /\ last'.leaked = 0]_vars

\* An Insert or Emplace into a full Vector of two elements, of a T that would
\* have been transferred by moving, that threw building the new element.
C17_Witness ==
    /\ last.op \in {"Insert", "Emplace"} /\ last.outcome = "threw" /\ last.at = "construct"
    /\ is_nothrow_move_constructible
    /\ Size(vec["a"]) = 2 /\ Capacity(vec["a"]) = 2 /\ ElemsOf("a") = <<1, 0>>

\* The live Vectors holding block p.
Owners(p) == {x \in Names : Alive(x) /\ vec[x].data_.buffer_ = p}

\* C18 (as claimed): every block a RawMemory allocated is released exactly
\* once: a block is allocated exactly while one live Vector holds it (the
\* block replaced during growth is released), so once every Vector has been
\* destroyed no block is left allocated.
C18_BlocksReleased ==
    /\ \A p \in DOMAIN heap : heap[p].allocated <=> Cardinality(Owners(p)) = 1
    /\ (\A x \in Names : ~Alive(x)) => \A p \in DOMAIN heap : ~heap[p].allocated

\* C19 (as claimed): an Insert or Emplace without growth (size < capacity)
\* in which a move construction or move assignment of an element throws
\* leaves the Vector valid: objects in exactly the slots [0, size), none
\* left outside that range.
C19_InPlaceFailureIsBasic ==
    [][\A x \in Names :
          (/\ last'.tgt = x /\ last'.op \in {"Insert", "Emplace"}
           /\ Size(vec[x]) < Capacity(vec[x]) /\ WellFormed(x)
           /\ last'.outcome = "threw" /\ last'.at = "move")
          => WellFormed(x)']_vars

\* C20 (as claimed): PushBack(const T&), Insert(pos, const T&) and
\* Emplace(pos, const T&) handed a reference to the Vector's own element k,
\* for every k in [0, size) and every pos in [begin, end], with growth or in
\* place, add (unless an exception is thrown) an element whose value is the
\* one v[k] held before the call.
C20_AliasedArgument ==
    [][\A x \in Names : \A k \in Elements(x) :
          /\ (/\ last'.op = "PushBack" /\ last'.outcome # "threw"
              /\ PushBackCall(x, ElementRef(k), "copy", 0))
             => /\ last'.outcome = "ok"
                /\ ElemsOf(x)'[Size(vec[x]) + 1] = ElemsOf(x)[k + 1]
          /\ \A index \in Positions(x) :
               /\ (/\ last'.op = "Insert" /\ last'.outcome # "threw"
                   /\ InsertCall(x, index, ElementRef(k), "copy", 0))
                  => /\ last'.outcome = "ok"
                     /\ ElemsOf(x)'[index + 1] = ElemsOf(x)[k + 1]
               /\ (/\ last'.op = "Emplace" /\ last'.outcome # "threw"
                   /\ EmplaceCall(x, index, ElementRef(k), 0))
                  => /\ last'.outcome = "ok"
                     /\ ElemsOf(x)'[index + 1] = ElemsOf(x)[k + 1]]_vars

\* One Vector, every operation on it.
Init == InitWith(Kinds, MaxVal, MaxCap, MaxBlocks, MaxFaults)

One(x) ==
    \/ DoDefaultConstruct(x)
    \/ DoSizedConstruct(x)
    \/ DoDestroy(x)
    \/ DoReserve(x)
    \/ DoResize(x)
    \/ DoPushBack(x)
    \/ DoEmplaceBack(x)
    \/ DoPopBack(x)
    \/ DoEmplace(x)
    \/ DoInsert(x)
    \/ DoErase(x)

Next == One("a") \/ DoCopyAssign("a") \/ DoMoveAssign("a") \/ DoRawMoveAssign("a")

Spec == Init /\ [][Next]_vars

\* An empty Vector, then PushBack and PopBack only.
StackInit ==
    /\ InitWith(Kinds, StackVal, StackCap, StackBlocks, StackFaults)

StackNext == DoDefaultConstruct("a") \/ StackPush \/ StackPop

StackSpec == StackInit /\ [][StackNext]_vars

\* One Vector driven by the script: appends, one insertion, one erasure, resizes.
ScriptInit == InitWith(Kinds, ScriptPushes, ScriptCap, ScriptBlocks, ScriptFaults)

ScriptNext ==
    \/ DoDefaultConstruct("a")
    \/ ScriptPush
    \/ ScriptInsert
    \/ ScriptErase
    \/ ScriptResize

ScriptSpec == ScriptInit /\ [][ScriptNext]_vars

\* One Vector of a copyable T, filled and then handed its own elements.
AliasInit == InitWith(Copyable, MaxVal, MaxCap, MaxBlocks, MaxFaults)

AliasNext ==
    \/ DoDefaultConstruct("a")
    \/ DoSizedConstruct("a")
    \/ DoReserve("a")
    \/ DoPushBack("a")
    \/ DoPopBack("a")
    \/ DoPushBackOwn("a")
    \/ DoInsertOwn("a")
    \/ DoEmplaceOwn("a")

AliasSpec == AliasInit /\ [][AliasNext]_vars

\* Two Vectors, every operation on each and between them.
PairInit == InitWith(Copyable, PairVal, PairCap, PairBlocks, PairFaults)

Two(x) ==
    \/ DoCopyConstruct(x)
    \/ DoMoveConstruct(x)
    \/ DoCopyAssign(x)
    \/ DoMoveAssign(x)
    \/ DoSwap(x)

PairNext == \E x \in Names : One(x) \/ Two(x)

PairSpec == PairInit /\ [][PairNext]_vars

====
